---- MODULE Spec2Model ----
(***************************************************************************)
(* A model of BaseToken (src/src/utils/base_token.ts): the transaction     *)
(* config builder createTransactionConfig, the four operations built on it *)
(* (processWrite, sendTransaction, readTransaction, processRead) and the   *)
(* lazy contract loader getContract.                                       *)
(*                                                                         *)
(* A JavaScript object is a function from property names to values; a      *)
(* missing property is the value Absent, a property holding undefined is   *)
(* Undefined.  Values are small naturals.  The chain-side default config   *)
(* is one object per side; createTransactionConfig merges the option INTO  *)
(* that object (Object.assign(defaultConfig, ...)) and returns it, so the  *)
(* config of a build and the default config of its side are one object.    *)
(***************************************************************************)
EXTENDS Integers, FiniteSets, Sequences, TLC

\* ------------------------------------------------------------------ values

\* a property that the object does not have (reads as undefined)
Absent == -1
\* a property that is present and holds undefined
Undefined == -2

\* JavaScript truthiness of a numeric-or-missing value: 0 and undefined are falsy
Truthy(v) == v > 0

\* Number(x) on the values of the model: a number converts to itself,
\* undefined converts to NaN (which the model writes as Undefined: falsy, no number)
Number(v) == IF v >= 0 THEN v ELSE Undefined

Sides == {"parent", "child"}

Keys == {"from", "value", "gasLimit", "gasPrice", "nonce", "chainId",
         "maxFeePerGas", "maxPriorityFeePerGas", "returnTransaction"}

\* the empty object {}
EmptyObj == [k \in Keys |-> Absent]

\* an object literal: the properties of r, every other property missing
Obj(r) == [k \in Keys |-> IF k \in DOMAIN r THEN r[k] ELSE Absent]

HasKey(o, k) == o[k] # Absent

\* Object.assign(target, source): every own property of source overwrites target's
ObjectAssign(target, source) ==
    [k \in Keys |-> IF HasKey(source, k) THEN source[k] ELSE target[k]]

\* ------------------------------------------------------------------ bounds

\* operations started on the token object in one behaviour
MaxCalls == 2
\* getContract calls made on the token object in one behaviour
MaxLoads == 3

\* an operation in flight occupies a slot; two slots let two operations overlap
Slots == {1, 2}
LoadIds == 1 .. MaxLoads

\* ------------------------------------------------------------------ inputs

\* what the caller hands in as `option`: a plain record, or something else
OptionKinds == {"record", "array", "string", "null", "undefined"}

\* caller options that carry one sender and at most one gas field
OneFieldOptions ==
    LET base == Obj([from |-> 10])
        extras == {<<"gasLimit", 0>>, <<"gasLimit", 30000>>, <<"gasPrice", 7>>,
                   <<"nonce", 0>>, <<"nonce", 3>>, <<"chainId", 0>>, <<"chainId", 5>>,
                   <<"maxFeePerGas", 40>>, <<"maxPriorityFeePerGas", 2>>,
                   <<"returnTransaction", 1>>}
    IN  {base} \cup {[base EXCEPT ![e[1]] = e[2]] : e \in extras}

\* the record options of the model
OptionFields ==
    OneFieldOptions \cup
    { Obj([from |-> 11, value |-> 0]),
      Obj([from |-> 11, value |-> 0, returnTransaction |-> 1]),
      Obj([from |-> 10, gasLimit |-> 30000, nonce |-> 3, chainId |-> 5]) }

Options ==
    {[kind |-> "record", fields |-> f] : f \in OptionFields} \cup
    {[kind |-> k, fields |-> EmptyObj] : k \in OptionKinds \ {"record"}}

\* the options of two overlapping operations: different senders and values
ConcOptions ==
    {[kind |-> "record", fields |-> f] :
        f \in { Obj([from |-> 10]), Obj([from |-> 11, value |-> 0]) }}

\* the default config records a chain side is configured with
DefaultConfigs ==
    { EmptyObj,
      Obj([maxFeePerGas |-> 30, maxPriorityFeePerGas |-> 2]),
      Obj([gasPrice |-> 7]) }

\* what the chain answers
Resolutions == {"gasLimit", "gasPrice", "nonce", "chainId"}
Replies(r) ==
    CASE r = "gasLimit" -> {21000}
      [] r = "gasPrice" -> {9}
      [] r = "nonce"    -> {5, 6}
      [] r = "chainId"  -> {137}

Ops == {"processWrite", "sendTransaction", "readTransaction", "processRead"}

\* the functions of the chain client and of the method handle an operation may call
NetFns == {"method.estimateGas", "client.estimateGas", "getGasPrice",
           "getTransactionCount", "getChainId",
           "method.write", "client.write", "client.read", "method.read"}

\* ------------------------------------------------------------------ state

VARIABLES
    isParent,            \* contractParam.isParent
    isEIP1559Supported,  \* client.isEIP1559Supported(isParent), per side
    defaultConfig,       \* client.config.<side>.defaultConfig: one object per side
    defaultConfig0,      \* the default configs as configured (history, never written)
    calls,               \* the operations in flight or finished, per slot
    started,             \* operations started so far
    contract_,           \* BaseToken.contract_: 0 while unset, else the instance
    loads,               \* the getContract calls
    abiFetches,          \* client.getABI calls issued
    constructed          \* contract instances constructed by getContract_

vars == <<isParent, isEIP1559Supported, defaultConfig, defaultConfig0, calls, started,
          contract_, loads, abiFetches, constructed>>

buildVars == <<isParent, isEIP1559Supported, defaultConfig, defaultConfig0, calls, started>>
loaderVars == <<contract_, loads, abiFetches, constructed>>

NoCalls == [f \in NetFns |-> 0]

\* a slot that holds no operation
IdleCall ==
    [pc |-> "idle", op |-> "none", option |-> [kind |-> "undefined", fields |-> EmptyObj],
     client |-> "none", maxFeePerGas |-> Absent, maxPriorityFeePerGas |-> Absent,
     rst |-> [r \in Resolutions |-> "none"], rval |-> [r \in Resolutions |-> Absent],
     net |-> NoCalls, estArg |-> EmptyObj, err |-> "none",
     hasConfig |-> FALSE, config |-> EmptyObj, result |-> "none", sent |-> EmptyObj]

IdleLoad == [pc |-> "idle", ret |-> 0, after |-> {}, fetched |-> FALSE]

\* ------------------------------------------------------------------ helpers

\* typeof option
TypeOf(kind) ==
    CASE kind \in {"record", "array", "null"} -> "object"
      [] kind = "string" -> "string"
      [] kind = "undefined" -> "undefined"

\* Array.isArray(option)
IsArray(kind) == kind = "array"

\* the default parameter `option = {}`: undefined becomes the empty record
DefaultParam(option) ==
    IF option.kind = "undefined" THEN [kind |-> "record", fields |-> EmptyObj] ELSE option

\* validateTxOption_ lets the option through (it throws otherwise)
ValidateTxOption(option) ==
    ~ (TypeOf(option.kind) # "object" \/ IsArray(option.kind))

\* (txConfig || {}): null becomes the empty record
OrEmpty(option) == IF option.kind = "null" THEN EmptyObj ELSE option.fields

\* a flag read under a name the option never has
NoReturnTransaction(option) == Truthy(Absent)

\* option.returnTransaction, read in the .then callback (not defined on null)
ReturnTransaction(option) == Truthy(option.fields["returnTransaction"])

HasMethod(op) == op \in {"processWrite", "processRead"}

\* every operation asking for a write-mode build
AlwaysWrite(op) == TRUE

\* the isWrite argument the operation passes to createTransactionConfig
IsWrite(op) == op # "processRead"

\* isParent ? parent : child
\* a token that works on the parent side whatever contractParam.isParent says
AlwaysParent(isP) == "parent"

SideOf(isP) == IF isP THEN "parent" ELSE "child"

\* a merge in which the default's keys win
DefaultsWin(default, txConfig) == ObjectAssign(txConfig, default)

\* the merged config: Object.assign(defaultConfig, txConfig || {})
MergedConfig(default, txConfig) == ObjectAssign(default, txConfig)

\* the guard that throws "Child chain doesn't support eip-1559"
ProtocolMismatch(isP, eip, maxFee, maxPrio) ==
    ~isP /\ eip /\ (Truthy(maxFee) \/ Truthy(maxPrio))

\* the field is resolved from the network: !txConfig.<field>
NeedsQuery(cfg, r) == ~Truthy(cfg[r])

\* the function a resolution calls
QueryFn(op, r) ==
    CASE r = "gasLimit" -> IF HasMethod(op) THEN "method.estimateGas" ELSE "client.estimateGas"
      [] r = "gasPrice" -> "getGasPrice"
      [] r = "nonce"    -> "getTransactionCount"
      [] r = "chainId"  -> "getChainId"

\* an estimate that is asked with the whole config
WholeConfigArg(cfg) == cfg

\* the argument of estimateGas: { from: txConfig.from, value: txConfig.value }
EstimateArg(cfg) == [k \in Keys |-> IF k \in {"from", "value"} THEN cfg[k] ELSE Absent]

\* the elements of the Promise.all array: a query is launched, or the value is there
Launched(cfg) == [r \in Resolutions |-> IF NeedsQuery(cfg, r) THEN "pending" ELSE "given"]

\* the calls the launch issues
LaunchCalls(op, cfg) ==
    [f \in NetFns |-> Cardinality({r \in Resolutions : NeedsQuery(cfg, r) /\ QueryFn(op, r) = f})]

\* a join that resumes on its first element alone
FirstFulfilled(rst) == rst["gasLimit"] \in {"given", "ok"}

\* Promise.all has settled: fulfilled once no element is pending
AllFulfilled(rst) == \A r \in Resolutions : rst[r] \in {"given", "ok"}

\* assignments that set the legacy gas price whatever the side supports
LegacyFilledConfig(cfg, eip, v, maxFee, maxPrio) ==
    [cfg EXCEPT !["gasLimit"] = Number(v["gasLimit"]),
                !["nonce"] = v["nonce"],
                !["chainId"] = v["chainId"],
                !["gasPrice"] = Number(v["gasPrice"])]

\* the assignments after the await
FilledConfig(cfg, eip, v, maxFee, maxPrio) ==
    LET base == [cfg EXCEPT !["gasLimit"] = Number(v["gasLimit"]),
                            !["nonce"] = v["nonce"],
                            !["chainId"] = v["chainId"]]
    IN  IF eip
        THEN [base EXCEPT !["maxFeePerGas"] = IF maxFee = Absent THEN Undefined ELSE maxFee,
                          !["maxPriorityFeePerGas"] = IF maxPrio = Absent THEN Undefined ELSE maxPrio]
        ELSE [base EXCEPT !["gasPrice"] = Number(v["gasPrice"])]

\* the execution capability an operation invokes when the config is not returned unsent
Capability(op) ==
    CASE op = "processWrite"    -> "method.write"
      [] op = "sendTransaction" -> "client.write"
      [] op = "readTransaction" -> "client.read"
      [] op = "processRead"     -> "method.read"

\* a capability that is invoked twice in one step
BumpTwice(net, f) == [net EXCEPT ![f] = @ + 2]

\* one more call of the function f
Bump(net, f) == [net EXCEPT ![f] = @ + 1]

\* ------------------------------------------------------------------ initial states

\* the token as configured: either side, with or without the dynamic fee market on
\* its side, its side's default config one of DefaultConfigs
ConfigInit ==
    /\ isParent \in BOOLEAN
    /\ \E own \in BOOLEAN :
          isEIP1559Supported =
             [sd \in Sides |-> IF sd = SideOf(isParent) THEN own ELSE sd = "parent"]
    /\ \E d \in DefaultConfigs :
          defaultConfig =
             [sd \in Sides |-> IF sd = SideOf(isParent) THEN d ELSE Obj([gasPrice |-> 7])]
    /\ defaultConfig0 = defaultConfig
    /\ calls = [s \in Slots |-> IdleCall]
    /\ started = 0

\* a token whose contract is loaded: method handles come from the loaded contract
Init ==
    /\ ConfigInit
    /\ contract_ = 1
    /\ loads = [l \in LoadIds |->
                  IF l = 1 THEN [pc |-> "done", ret |-> 1, after |-> {}, fetched |-> TRUE]
                  ELSE IdleLoad]
    /\ abiFetches = 1
    /\ constructed = 1

\* a token right after construction: no contract yet
InitLoader ==
    /\ ConfigInit
    /\ contract_ = 0
    /\ loads = [l \in LoadIds |-> IdleLoad]
    /\ abiFetches = 0
    /\ constructed = 0

\* ------------------------------------------------------------------ the operations

InFlight(s) == calls[s].pc \in {"awaiting", "built"}

\* The synchronous part of an operation: validateTxOption_, then
\* createTransactionConfig up to its await (the merge, the protocol guard, the
\* launch of the four resolutions), or to its return when isWrite is false.
Begin(s, op, option0) ==
    LET option == DefaultParam(option0)
        side   == SideOf(isParent)
        merged == MergedConfig(defaultConfig[side], OrEmpty(option))
        maxFee == merged["maxFeePerGas"]
        maxPrio == merged["maxPriorityFeePerGas"]
        eip    == isEIP1559Supported[side]
        call   == [IdleCall EXCEPT !.op = op, !.option = option]
    IN  /\ started < MaxCalls
        /\ ~InFlight(s)
        /\ started' = started + 1
        /\ UNCHANGED <<isParent, isEIP1559Supported, defaultConfig0, loaderVars>>
        /\ IF ~ValidateTxOption(option)
           THEN /\ calls' = [calls EXCEPT ![s] =
                       [call EXCEPT !.pc = "failed", !.err = "TransactionOptionNotObject"]]
                /\ UNCHANGED defaultConfig
           ELSE \* txConfig and the side's default config are one object from here on
                /\ defaultConfig' = [defaultConfig EXCEPT ![side] = merged]
                /\ calls' = [calls EXCEPT ![s] =
                     IF ~IsWrite(op)
                     THEN [call EXCEPT !.pc = "built", !.client = side,
                                       !.hasConfig = TRUE, !.config = merged]
                     ELSE IF ProtocolMismatch(isParent, eip, maxFee, maxPrio)
                     THEN [call EXCEPT !.pc = "failed", !.client = side,
                                       !.maxFeePerGas = maxFee,
                                       !.maxPriorityFeePerGas = maxPrio,
                                       !.err = "ChildEip1559"]
                     ELSE [call EXCEPT !.pc = "awaiting", !.client = side,
                                       !.maxFeePerGas = maxFee,
                                       !.maxPriorityFeePerGas = maxPrio,
                                       !.rst = Launched(merged),
                                       !.rval = [r \in Resolutions |->
                                                   IF NeedsQuery(merged, r) THEN Absent
                                                   ELSE merged[r]],
                                       !.net = LaunchCalls(op, merged),
                                       !.estArg = IF NeedsQuery(merged, "gasLimit")
                                                  THEN EstimateArg(merged) ELSE EmptyObj]]

ProcessWrite(s, option) == Begin(s, "processWrite", option)
SendTransaction(s, option) == Begin(s, "sendTransaction", option)
ReadTransaction(s, option) == Begin(s, "readTransaction", option)
ProcessRead(s, option) == Begin(s, "processRead", option)

\* a guard with its test the wrong way round
GuardInverted(isP) == isP

\* checkForRoot throws: the token is not on the parent side
CheckForRootThrows(isP) == ~isP

\* checkForChild throws: the token is on the parent side
CheckForChildThrows(isP) == isP

\* a guard call: it throws the usage error or returns; it builds and calls nothing
Guard(s, name, throws, error) ==
    /\ started < MaxCalls
    /\ ~InFlight(s)
    /\ started' = started + 1
    /\ calls' = [calls EXCEPT ![s] =
                   IF throws
                   THEN [IdleCall EXCEPT !.op = name, !.pc = "failed", !.err = error]
                   ELSE [IdleCall EXCEPT !.op = name, !.pc = "done"]]
    /\ UNCHANGED <<isParent, isEIP1559Supported, defaultConfig, defaultConfig0, loaderVars>>

CheckForRoot(s) == Guard(s, "checkForRoot", CheckForRootThrows(isParent), "AllowedOnRoot")
CheckForChild(s) == Guard(s, "checkForChild", CheckForChildThrows(isParent), "AllowedOnChild")

\* one of the launched queries is answered
Resolve(s, r, v) ==
    /\ calls[s].pc = "awaiting"
    /\ calls[s].rst[r] = "pending"
    /\ calls' = [calls EXCEPT ![s].rst[r] = "ok", ![s].rval[r] = v]
    /\ UNCHANGED <<isParent, isEIP1559Supported, defaultConfig, defaultConfig0, started,
                   loaderVars>>

\* Promise.all rejects with the error of the element that failed; what its other
\* elements have answered or answer later is dropped
Rejected(rst, r) ==
    [x \in Resolutions |-> IF x = r THEN "failed"
                           ELSE IF rst[x] = "given" THEN "given" ELSE "dropped"]

\* one of the launched queries fails: the await throws its error and the build
\* ends there, before any of the assignments
Reject(s, r) ==
    /\ calls[s].pc = "awaiting"
    /\ calls[s].rst[r] = "pending"
    /\ calls' = [calls EXCEPT ![s].rst = Rejected(@, r),
                              ![s].rval = [x \in Resolutions |->
                                             IF calls[s].rst[x] = "given" THEN @[x] ELSE Absent],
                              ![s].pc = "failed",
                              ![s].err = QueryFn(calls[s].op, r)]
    /\ UNCHANGED <<isParent, isEIP1559Supported, defaultConfig, defaultConfig0, started,
                   loaderVars>>

\* the continuation of createTransactionConfig after the await: the resolved
\* values are written into txConfig (the side's default config object), which is returned
OptionsFilled(s) ==
    LET c == calls[s]
        filled == FilledConfig(defaultConfig[c.client], isEIP1559Supported[c.client],
                               c.rval, c.maxFeePerGas, c.maxPriorityFeePerGas)
    IN  /\ c.pc = "awaiting"
        /\ AllFulfilled(c.rst)
        /\ defaultConfig' = [defaultConfig EXCEPT ![c.client] = filled]
        /\ calls' = [calls EXCEPT ![s].pc = "built", ![s].hasConfig = TRUE,
                                  ![s].config = filled]
        /\ UNCHANGED <<isParent, isEIP1559Supported, defaultConfig0, started, loaderVars>>

\* the .then callback of the operation: the config is returned unsent, or the
\* execution capability is invoked with it
Then(s) ==
    LET c == calls[s]
        cfg == defaultConfig[c.client]
    IN  /\ c.pc = "built"
        /\ calls' = [calls EXCEPT ![s] =
             IF c.option.kind = "null"
             THEN [c EXCEPT !.pc = "failed", !.err = "TypeError"]
             ELSE IF ReturnTransaction(c.option)
             THEN IF c.op = "processRead" /\ contract_ = 0
                  THEN [c EXCEPT !.pc = "failed", !.err = "TypeError"]
                  ELSE [c EXCEPT !.pc = "done",
                                 !.result = IF HasMethod(c.op) THEN "unsentWithData"
                                            ELSE "unsent"]
             ELSE [c EXCEPT !.pc = "done",
                            !.net = Bump(c.net, Capability(c.op)),
                            !.sent = cfg,
                            !.result = IF c.op \in {"processWrite", "sendTransaction"}
                                       THEN "writeResult" ELSE "readResult"]]
        /\ UNCHANGED <<isParent, isEIP1559Supported, defaultConfig, defaultConfig0, started,
                       loaderVars>>

\* ------------------------------------------------------------------ getContract

\* getContract(): the memoized instance if there is one, else an ABI fetch
GetContract(l) ==
    /\ loads[l].pc = "idle"
    /\ \A k \in LoadIds : k < l => loads[k].pc # "idle"
    /\ LET seen == {k \in LoadIds : loads[k].pc = "done"}
       IN  IF contract_ # 0
           THEN /\ loads' = [loads EXCEPT ![l] = [pc |-> "done", ret |-> contract_,
                                                  after |-> seen, fetched |-> FALSE]]
                /\ UNCHANGED abiFetches
           ELSE /\ loads' = [loads EXCEPT ![l] = [pc |-> "fetching", ret |-> 0,
                                                  after |-> seen, fetched |-> TRUE]]
                /\ abiFetches' = abiFetches + 1
    /\ UNCHANGED <<buildVars, contract_, constructed>>

\* the .then of getABI: a contract is constructed and stored in contract_
AbiResolved(l) ==
    /\ loads[l].pc = "fetching"
    /\ constructed' = constructed + 1
    /\ contract_' = constructed + 1
    /\ loads' = [loads EXCEPT ![l].pc = "done", ![l].ret = constructed + 1]
    /\ UNCHANGED <<buildVars, abiFetches>>

\* a failed fetch that leaves an instance behind in contract_
AbiFailedStores(l) ==
    /\ loads[l].pc = "fetching"
    /\ loads' = [loads EXCEPT ![l].pc = "failed"]
    /\ contract_' = constructed + 1
    /\ UNCHANGED <<buildVars, abiFetches, constructed>>

\* getABI rejects: the rejection is the caller's, nothing is stored
AbiFailed(l) ==
    /\ loads[l].pc = "fetching"
    /\ loads' = [loads EXCEPT ![l].pc = "failed"]
    /\ UNCHANGED <<buildVars, contract_, abiFetches, constructed>>

\* ------------------------------------------------------------------ specifications

\* the settling steps of the operations in flight
Settle ==
    \E s \in Slots :
        \/ \E r \in Resolutions : \E v \in Replies(r) : Resolve(s, r, v)
        \/ \E r \in Resolutions : Reject(s, r)
        \/ OptionsFilled(s)
        \/ Then(s)

\* operations one after the other: the next starts when the last has ended
Next ==
    \/ \E option \in Options :
          /\ \A s \in Slots : ~InFlight(s)
          /\ \/ ProcessWrite(1, option)
             \/ SendTransaction(1, option)
             \/ ReadTransaction(1, option)
             \/ ProcessRead(1, option)
    \/ /\ \A s \in Slots : ~InFlight(s)
       /\ \/ CheckForRoot(1)
          \/ CheckForChild(1)
    \/ Settle

Spec == Init /\ [][Next]_vars

\* two operations that may overlap
NextConc ==
    \/ \E s \in Slots : \E option \in ConcOptions :
          /\ s = 1 \/ calls[1].pc # "idle"
          /\ \/ ProcessWrite(s, option)
             \/ SendTransaction(s, option)
             \/ ReadTransaction(s, option)
             \/ ProcessRead(s, option)
    \/ Settle

SpecConc == Init /\ [][NextConc]_vars

\* the contract loader alone
NextLoader ==
    \E l \in LoadIds :
        \/ GetContract(l)
        \/ AbiResolved(l)
        \/ AbiFailed(l)

SpecLoader == InitLoader /\ [][NextLoader]_vars

\* ------------------------------------------------------------------ the claims

\* the operations that got as far as launching their resolutions
Launches(c) == IsWrite(c.op) /\ c.op # "none" /\ c.rst["gasLimit"] # "none"

\* a write-mode build that returned a config
WriteBuilt(c) == IsWrite(c.op) /\ c.op # "none" /\ c.hasConfig

FeePair == {"maxFeePerGas", "maxPriorityFeePerGas"}

\* the functions of the chain client and the method handle that execute a transaction
Capabilities == {"method.write", "client.write", "client.read", "method.read"}

\* C1: on a side with the dynamic fee market, the config a write-mode build returns
\* keeps the dynamic fee pair of the merged config and has no legacy gas price
C1_DynamicFeeOnly ==
    \A s \in Slots :
        (WriteBuilt(calls[s]) /\ isEIP1559Supported[calls[s].client]) =>
            /\ ~HasKey(calls[s].config, "gasPrice")
            /\ calls[s].config["maxFeePerGas"] \in {calls[s].maxFeePerGas, Undefined}
            /\ calls[s].config["maxPriorityFeePerGas"]
                  \in {calls[s].maxPriorityFeePerGas, Undefined}

\* C2: on a side without the dynamic fee market, the config a write-mode build
\* returns has an integer legacy gas price and neither dynamic fee field
C2_LegacyFeeOnly ==
    \A s \in Slots :
        (WriteBuilt(calls[s]) /\ ~isEIP1559Supported[calls[s].client]) =>
            /\ calls[s].config["gasPrice"] \in Nat
            /\ \A k \in FeePair : ~HasKey(calls[s].config, k)

\* C3: a write-mode build whose option omits nonce and gas price, on a side whose
\* configured default has neither, issues its own getTransactionCount and getGasPrice
\* queries, and the nonce it returns is the answer to its own query
C3_NonceResolvedPerCall ==
    \A s \in Slots :
        LET c == calls[s] IN
        ( /\ Launches(c)
          /\ c.option.kind = "record"
          /\ ~HasKey(c.option.fields, "nonce") /\ ~HasKey(c.option.fields, "gasPrice")
          /\ ~HasKey(defaultConfig0[c.client], "nonce")
          /\ ~HasKey(defaultConfig0[c.client], "gasPrice") ) =>
            /\ c.net["getTransactionCount"] = 1
            /\ c.net["getGasPrice"] = 1
            /\ c.hasConfig => (c.rst["nonce"] = "ok" /\ c.config["nonce"] = c.rval["nonce"])

\* C4: the default config of each side stays as configured
C4_DefaultsUnchanged == defaultConfig = defaultConfig0

\* C5: an operation given an array or another non-record option fails with the
\* validation error and calls nothing
C5_NonRecordRejected ==
    \A s \in Slots :
        (calls[s].op \in Ops /\ calls[s].option.kind # "record") =>
            /\ calls[s].pc = "failed"
            /\ calls[s].err = "TransactionOptionNotObject"
            /\ calls[s].net = NoCalls

\* C6: a write-mode build on the child side without the dynamic fee market, whose
\* merged config carries a dynamic fee field, fails with the protocol-mismatch error
\* and calls nothing
C6_ChildMismatchRejected ==
    \A s \in Slots :
        LET c == calls[s] IN
        ( /\ IsWrite(c.op) /\ c.op # "none"
          /\ c.client = "child" /\ ~isEIP1559Supported["child"]
          /\ (Truthy(c.maxFeePerGas) \/ Truthy(c.maxPriorityFeePerGas)) ) =>
            /\ c.pc = "failed"
            /\ c.err = "ChildEip1559"
            /\ c.net = NoCalls

\* C7: gas limit, nonce and chain id that the caller supplies (0 included) are not
\* resolved from the network and appear in the returned config, while a gas price
\* that is not there is still resolved
C7_SuppliedNotResolved ==
    \A s \in Slots :
        LET c == calls[s] IN
        (Launches(c) /\ c.option.kind = "record") =>
            /\ \A f \in {"gasLimit", "nonce", "chainId"} :
                  HasKey(c.option.fields, f) =>
                      /\ c.net[QueryFn(c.op, f)] = 0
                      /\ c.hasConfig => c.config[f] = c.option.fields[f]
            /\ c.rst["gasPrice"] # "given" => c.net["getGasPrice"] = 1

\* C8: the four resolutions of a write-mode build are launched together; a config
\* is returned only when all four are fulfilled; when one fails the build fails with
\* its error, returns no config and invokes no read or write
C8_JoinAllOrFail ==
    \A s \in Slots :
        LET c == calls[s] IN
        Launches(c) =>
            /\ \A r \in Resolutions :
                  /\ c.rst[r] # "none"
                  /\ c.net[QueryFn(c.op, r)] = IF c.rst[r] = "given" THEN 0 ELSE 1
            /\ c.hasConfig => \A r \in Resolutions : c.rst[r] \in {"given", "ok"}
            /\ \A r \in Resolutions :
                  c.rst[r] = "failed" =>
                      /\ c.pc = "failed"
                      /\ c.err = QueryFn(c.op, r)
                      /\ ~c.hasConfig
                      /\ c.result = "none"
                      /\ \A f \in Capabilities : c.net[f] = 0

\* C8 happens: the nonce query fails and the build ends with its error; what the gas
\* estimate, launched before it, and the chain id, launched after it, answer is dropped
C8_Witness ==
    \E s \in Slots :
        /\ calls[s].pc = "failed"
        /\ calls[s].err = "getTransactionCount"
        /\ calls[s].rst["gasLimit"] = "dropped"
        /\ calls[s].rst["chainId"] = "dropped"

\* C9: a getContract call that starts after another has resolved returns the same
\* instance as that one and fetches no ABI
C9_SameInstanceAfterResolve ==
    \A l1, l2 \in LoadIds :
        (loads[l1].pc = "done" /\ loads[l2].pc = "done" /\ l1 \in loads[l2].after) =>
            /\ loads[l2].ret = loads[l1].ret
            /\ ~loads[l2].fetched

\* C10: contract_ is assigned at most once
C10_WrittenOnce == constructed <= 1

\* C11: with the return-unsent flag set in the option, no operation invokes its
\* execution capability (method.write, client.write, client.read, method.read), and
\* an operation that ends well ends with the config
C11_UnsentNeverExecutes ==
    \A s \in Slots :
        LET c == calls[s] IN
        ( /\ c.op \in Ops
          /\ c.option.kind = "record"
          /\ Truthy(c.option.fields["returnTransaction"]) ) =>
            /\ \A f \in Capabilities : c.net[f] = 0
            /\ c.sent = EmptyObj
            /\ c.pc = "done" => (c.hasConfig /\ c.result \in {"unsent", "unsentWithData"})

\* C11 happens: read-via-client with the flag set has ended with the config, and
\* client.read was not called
C11_Witness ==
    \E s \in Slots :
        /\ calls[s].op = "readTransaction"
        /\ Truthy(calls[s].option.fields["returnTransaction"])
        /\ calls[s].pc = "done"
        /\ calls[s].result = "unsent"
        /\ calls[s].net["client.read"] = 0

\* the functions that resolve a field of the config
QueryFns == {"method.estimateGas", "client.estimateGas", "getGasPrice",
             "getTransactionCount", "getChainId"}

\* C12 as stated: read-via-method resolves the gas limit, nonce and chain id that
\* the option omits from the network, as read-via-client does
C12_ReadViaMethodResolves ==
    \A s \in Slots :
        LET c == calls[s] IN
        (c.op = "processRead" /\ c.option.kind = "record" /\ c.hasConfig) =>
            \A f \in {"gasLimit", "nonce", "chainId"} :
                ~HasKey(c.option.fields, f) =>
                    (c.rst[f] \in {"given", "ok"} /\ Truthy(c.config[f]))

\* C12 as amended: read-via-method launches no resolution and calls none of the
\* resolving functions; what it hands to the method's read is the config it built;
\* read-via-client, once past validation and the protocol guard, has its four
\* resolutions launched
C12_ReadViaMethodResolvesNothing ==
    \A s \in Slots :
        LET c == calls[s] IN
        /\ c.op = "processRead" =>
              /\ \A r \in Resolutions : c.rst[r] = "none"
              /\ \A f \in QueryFns : c.net[f] = 0
              /\ c.result = "readResult" => c.sent = c.config
        /\ (c.op = "readTransaction" /\ c.pc \in {"awaiting", "built", "done"}) =>
              \A r \in Resolutions : c.rst[r] # "none"

\* C12 happens: read-via-method has invoked the method's read with a config that
\* has no gas limit, nonce or chain id
C12_Witness ==
    \E s \in Slots :
        /\ calls[s].op = "processRead"
        /\ calls[s].result = "readResult"
        /\ calls[s].net["method.read"] = 1
        /\ \A f \in {"gasLimit", "nonce", "chainId"} : ~HasKey(calls[s].sent, f)
        /\ calls[s].sent["from"] = 10

\* C13: a build with isWrite = false (read-via-method) returns the merge of the
\* side's default config and the option (the option's keys win, the other keys are
\* the default's) and calls none of estimateGas, getGasPrice, getTransactionCount,
\* getChainId
C13_ReadBuildIsMerge ==
    [][ \A s \in Slots :
          calls'[s].op = "processRead" =>
              LET c == calls'[s]
                  opt == IF c.option.kind = "null" THEN EmptyObj ELSE c.option.fields
              IN  /\ \A f \in QueryFns : c.net[f] = 0
                  /\ (c.hasConfig /\ started' = started + 1) =>
                        /\ c.pc = "built"
                        /\ \A k \in Keys :
                              c.config[k] = IF opt[k] # Absent THEN opt[k]
                                            ELSE defaultConfig[c.client][k]
      ]_vars

\* C13 happens: a read build over the default {maxFeePerGas: 30, maxPriorityFeePerGas: 2}
\* with the option {from: 10, maxFeePerGas: 40} has returned the caller's maxFeePerGas
\* and the default's maxPriorityFeePerGas
C13_Witness ==
    \E s \in Slots :
        /\ calls[s].op = "processRead"
        /\ started = 1
        /\ calls[s].hasConfig
        /\ defaultConfig0[calls[s].client]["maxFeePerGas"] = 30
        /\ calls[s].option.fields["maxFeePerGas"] = 40
        /\ calls[s].config["maxFeePerGas"] = 40
        /\ calls[s].config["maxPriorityFeePerGas"] = 2
        /\ ~HasKey(calls[s].config, "gasLimit")

\* the scenario of C14: the first operation of a parent-side token with the dynamic
\* fee market, default config {maxFeePerGas: 30, maxPriorityFeePerGas: 2}, option
\* {from: 11, value: 0}, estimateGas -> 21000, getTransactionCount -> 5, getChainId -> 137
C14_Scenario(c) ==
    /\ c.op \in {"processWrite", "sendTransaction", "readTransaction"}
    /\ c.hasConfig
    /\ started = 1
    /\ c.client = "parent"
    /\ isEIP1559Supported["parent"]
    /\ defaultConfig0["parent"] = Obj([maxFeePerGas |-> 30, maxPriorityFeePerGas |-> 2])
    /\ c.option = [kind |-> "record", fields |-> Obj([from |-> 11, value |-> 0])]
    /\ c.rval["gasLimit"] = 21000
    /\ c.rval["nonce"] = 5
    /\ c.rval["chainId"] = 137

\* C14: in that scenario the returned config is exactly {from: 11, value: 0,
\* gasLimit: 21000, nonce: 5, chainId: 137, maxFeePerGas: 30, maxPriorityFeePerGas: 2},
\* with no gasPrice key
C14_ScenarioConfig ==
    \A s \in Slots :
        C14_Scenario(calls[s]) =>
            calls[s].config = Obj([from |-> 11, value |-> 0, gasLimit |-> 21000,
                                   nonce |-> 5, chainId |-> 137,
                                   maxFeePerGas |-> 30, maxPriorityFeePerGas |-> 2])

\* C14 happens: the scenario has been built by write-via-client
C14_Witness ==
    \E s \in Slots :
        /\ C14_Scenario(calls[s])
        /\ calls[s].op = "sendTransaction"
        /\ calls[s].net["client.estimateGas"] = 1
        /\ ~HasKey(calls[s].config, "gasPrice")

\* C15: checkForRoot on a child-side token and checkForChild on a parent-side token
\* fail with the usage error, with no config built and nothing called; on a token of
\* the matching side the guard returns without an error
C15_GuardsBySide ==
    \A s \in Slots :
        LET c == calls[s] IN
        /\ c.op = "checkForRoot" =>
              IF isParent THEN c.pc = "done" /\ c.err = "none"
              ELSE c.pc = "failed" /\ c.err = "AllowedOnRoot"
        /\ c.op = "checkForChild" =>
              IF isParent THEN c.pc = "failed" /\ c.err = "AllowedOnChild"
              ELSE c.pc = "done" /\ c.err = "none"
        /\ c.op \in {"checkForRoot", "checkForChild"} =>
              /\ ~c.hasConfig
              /\ c.net = NoCalls
              /\ \A r \in Resolutions : c.rst[r] = "none"
              /\ started = 1 => defaultConfig = defaultConfig0

\* C15 happens: checkForRoot has failed on a child-side token whose default config
\* is still as configured
C15_Witness ==
    \E s \in Slots :
        /\ ~isParent
        /\ calls[s].op = "checkForRoot"
        /\ calls[s].err = "AllowedOnRoot"
        /\ started = 1
        /\ defaultConfig = defaultConfig0

\* C16: the config a write-mode build returns carries the sender and the value its
\* own caller supplied, also when another build is in flight at the same time
C16_OwnCallerFields ==
    \A s \in Slots :
        LET c == calls[s] IN
        (c.op \in Ops /\ c.option.kind = "record" /\ c.hasConfig) =>
            \A k \in {"from", "value"} :
                HasKey(c.option.fields, k) => c.config[k] = c.option.fields[k]

\* C17: a write operation without the return-unsent flag invokes its write capability
\* exactly once, after the build has completed and with the built config; an operation
\* whose validation or build fails never invokes it
C17_WriteOnceAfterBuild ==
    \A s \in Slots :
        LET c == calls[s]
            own == Capability(c.op)
            w == c.net[own]
        IN  c.op \in {"processWrite", "sendTransaction"} =>
              /\ \A f \in Capabilities \ {own} : c.net[f] = 0
              /\ w = (IF c.pc = "done" /\ c.result = "writeResult" THEN 1 ELSE 0)
              /\ (c.pc = "done" /\ ~Truthy(c.option.fields["returnTransaction"])) => w = 1
              /\ w >= 1 => (c.hasConfig /\ c.sent = c.config /\ AllFulfilled(c.rst))
              /\ c.pc = "failed" => w = 0

C17_Witness ==
    /\ started = 2
    /\ \E s \in Slots :
          /\ calls[s].op = "sendTransaction"
          /\ calls[s].pc = "done"
          /\ calls[s].net["client.write"] = 1
          /\ calls[s].sent = calls[s].config
          /\ calls[s].config["nonce"] \in Replies("nonce")

\* C18: a build works on the side contractParam.isParent names: its client is that
\* side's client, and the other side's default config stays as configured and is not
\* what the build's config is made of
C18_OwnSideOnly ==
    LET own == IF isParent THEN "parent" ELSE "child"
        other == IF isParent THEN "child" ELSE "parent"
    IN  /\ defaultConfig[other] = defaultConfig0[other]
        /\ \A s \in Slots :
              LET c == calls[s] IN
              c.op \in Ops =>
                 /\ c.client \in {"none", own}
                 /\ ValidateTxOption(c.option) => c.client = own
                 /\ ( /\ started = 1
                      /\ c.hasConfig
                      /\ ~HasKey(c.option.fields, "gasPrice")
                      /\ ~HasKey(defaultConfig0[own], "gasPrice") ) =>
                         c.config["gasPrice"] # defaultConfig0[other]["gasPrice"]

C18_Witness ==
    /\ ~isParent
    /\ defaultConfig0["parent"] # defaultConfig0["child"]
    /\ defaultConfig["child"] # defaultConfig0["child"]
    /\ \E s \in Slots :
          /\ calls[s].op = "processWrite"
          /\ calls[s].pc = "done"
          /\ calls[s].client = "child"
          /\ calls[s].config["gasPrice"] = 9

\* C19: a write-mode build whose merged config has no gas limit asks for the gas
\* estimate once, of the method handle when the operation has one and of the chain
\* client otherwise, with the merged config's sender and value and nothing else
C19_EstimateOnce ==
    \A s \in Slots :
        LET c == calls[s]
            asked == IF HasMethod(c.op) THEN "method.estimateGas" ELSE "client.estimateGas"
            notAsked == IF HasMethod(c.op) THEN "client.estimateGas" ELSE "method.estimateGas"
        IN  c.op \in Ops =>
              /\ ( /\ started = 1
                   /\ c.op \in {"processWrite", "sendTransaction"}
                   /\ c.client # "none"
                   /\ c.err # "ChildEip1559"
                   /\ ~HasKey(c.option.fields, "gasLimit")
                   /\ ~HasKey(defaultConfig0[c.client], "gasLimit") ) =>
                      c.rst["gasLimit"] \notin {"none", "given"}
              /\ c.rst["gasLimit"] \notin {"none", "given"} =>
                    /\ c.net[asked] = 1
                    /\ c.net[notAsked] = 0
                    /\ \A k \in Keys :
                          c.estArg[k] = IF k \in {"from", "value"}
                                        THEN defaultConfig[c.client][k] ELSE Absent

C19_Witness ==
    \E s \in Slots :
        /\ calls[s].op = "processWrite"
        /\ calls[s].pc = "done"
        /\ calls[s].rst["gasLimit"] = "ok"
        /\ calls[s].net["method.estimateGas"] = 1
        /\ calls[s].estArg["from"] = 10
        /\ calls[s].option.fields["nonce"] = 3
        /\ calls[s].estArg["nonce"] = Absent

\* C20: a getContract call whose ABI fetch fails gets the failure and no instance, the
\* failure stores nothing in contract_, and a call made while no instance is stored
\* fetches the ABI itself
C20_FailureNotMemoized ==
    /\ contract_ # 0 => \E l \in LoadIds : loads[l].pc = "done" /\ loads[l].fetched
    /\ contract_ \in 0 .. constructed
    /\ \A l \in LoadIds :
          /\ loads[l].pc = "failed" => (loads[l].ret = 0 /\ loads[l].fetched)
          /\ (loads[l].pc # "idle" /\ ~loads[l].fetched) =>
                \E k \in 1 .. (l - 1) :
                    loads[k].pc = "done" /\ loads[k].fetched /\ loads[k].ret = loads[l].ret
          /\ (loads[l].pc # "idle" /\ \A k \in 1 .. (l - 1) : loads[k].pc = "failed") =>
                loads[l].fetched

C20_Witness ==
    /\ loads[1].pc = "failed"
    /\ loads[2].pc = "done"
    /\ loads[2].fetched
    /\ contract_ = loads[2].ret
    /\ contract_ # 0
    /\ abiFetches = 2

====
